---- MODULE Spec2Model ----
(***************************************************************************)
(* Model of src/server.js: the Express relay that acknowledges a Twilio    *)
(* webhook and forwards a normalised payload to the main application.      *)
(*                                                                         *)
(* Node runs one callback at a time: `running` is the request whose        *)
(* synchronous segment occupies the event loop (NoHandler when the loop    *)
(* is free).  A handler gives the loop back at its `await` and when it     *)
(* returns.  Wall-clock values (startTime, receivedAt, processingTime)     *)
(* only reach the log and the receivedAt field, and are left out.          *)
(***************************************************************************)
EXTENDS Integers, Sequences, FiniteSets, TLC

\* ------------------------------------------------------------------ bounds
NumReq == 2     \* requests the provider sends in one run
MaxLen == 2     \* longest NumMedia string the handler is tried on
MaxIdx == 2     \* highest X of a MediaUrlX field a request carries

\* --------------------------------------------------------- program constants
OkStatus == 200
ErrorStatus == 500
NotFoundStatus == 404
Radix == 10
ExitFailure == 1
ExitSuccess == 0

\* ---------------------------------------------------------------- JS values
Undefined == "undefined"            \* an absent field / unset variable
Truthy(v) == v # Undefined /\ v # ""
Falsy(v) == ~Truthy(v)

Req == 1..NumReq
NoHandler == 0

AckDoc == "<?xml version=\"1.0\" encoding=\"UTF-8\"?><Response></Response>"
HealthDoc == "{status:healthy,timestamp,mainAppUrl}"
NotFoundDoc == "{error:Route not found,availableRoutes:[/health,/twilio-webhook]}"
GlobalErrorDoc == "{error:Internal server error,message}"

\* res.status(200).send(...) of the webhook handler
AckResponse == [status |-> OkStatus, body |-> AckDoc]
\* res.status(500).send(...) of the webhook handler's catch
ErrorResponse == [status |-> ErrorStatus, body |-> AckDoc]

\* ------------------------------------------------------------ configuration
requiredEnvVars == {"MAIN_APP_URL", "SUPABASE_ANON_KEY"}
EnvNames == requiredEnvVars \cup {"DEBUG_MODE"}

EnvValues(n) ==
  CASE n = "MAIN_APP_URL" -> {Undefined, "", "https://main.app"}
    [] n = "SUPABASE_ANON_KEY" -> {Undefined, "", "anon-key"}
    [] OTHER -> {Undefined, "true"}

Environments == {e \in [EnvNames -> {Undefined, "", "https://main.app", "anon-key", "true"}] :
                   \A n \in EnvNames : e[n] \in EnvValues(n)}

\* faulty variant: an empty value passes the validation
missingEnvVarsDefinedOnly(e) == {n \in requiredEnvVars : e[n] = Undefined}
missingEnvVars(e) == {n \in requiredEnvVars : Falsy(e[n])}

NoConfig == [MAIN_APP_URL |-> Undefined, SUPABASE_ANON_KEY |-> Undefined, DEBUG_MODE |-> FALSE]
LoadConfig(e) == [MAIN_APP_URL |-> e["MAIN_APP_URL"],
                  SUPABASE_ANON_KEY |-> e["SUPABASE_ANON_KEY"],
                  DEBUG_MODE |-> (e["DEBUG_MODE"] = "true")]

\* ------------------------------------------------------------------ parseInt
\* A NumMedia value: absent, JSON null, or a string (a sequence of characters).
Chars == {"1", "2", "a", " ", "-"}
Digits == {"0", "1", "2", "3", "4", "5", "6", "7", "8", "9"}
WhiteSpace == {" "}

StringsUpTo(n) == UNION {[1..k -> Chars] : k \in 0..n}
Str(s) == [kind |-> "string", chars |-> s]
UndefinedValue == [kind |-> "undefined", chars |-> <<>>]
NullValue == [kind |-> "null", chars |-> <<>>]

\* ToString of the argument, as parseInt applies it first
ToStr(v) ==
  CASE v.kind = "string" -> v.chars
    [] v.kind = "null" -> <<"n", "u", "l", "l">>
    [] OTHER -> <<"u", "n", "d", "e", "f", "i", "n", "e", "d">>

RECURSIVE TrimStart(_)
TrimStart(s) == IF s # <<>> /\ s[1] \in WhiteSpace THEN TrimStart(Tail(s)) ELSE s

RECURSIVE DigitPrefix(_)
DigitPrefix(s) == IF s # <<>> /\ s[1] \in Digits THEN <<s[1]>> \o DigitPrefix(Tail(s)) ELSE <<>>

DigitVal(c) ==
  CASE c = "0" -> 0 [] c = "1" -> 1 [] c = "2" -> 2 [] c = "3" -> 3 [] c = "4" -> 4
    [] c = "5" -> 5 [] c = "6" -> 6 [] c = "7" -> 7 [] c = "8" -> 8 [] c = "9" -> 9

RECURSIVE DigitsValue(_)
DigitsValue(d) ==
  IF d = <<>> THEN 0
  ELSE DigitsValue(SubSeq(d, 1, Len(d) - 1)) * Radix + DigitVal(d[Len(d)])

NaN == [nan |-> TRUE, val |-> 0]
Num(n) == [nan |-> FALSE, val |-> n]

\* parseInt(v, 10): leading white space skipped, one optional sign, then the
\* longest prefix of decimal digits; NaN when that prefix is empty.
parseInt(v) ==
  LET S == TrimStart(ToStr(v))
      signed == S # <<>> /\ S[1] \in {"-", "+"}
      sign == IF S # <<>> /\ S[1] = "-" THEN -1 ELSE 1
      rest == IF signed THEN Tail(S) ELSE S
      Z == DigitPrefix(rest)
  IN IF Z = <<>> THEN NaN ELSE Num(sign * DigitsValue(Z))

\* faulty variant: i <= mediaCount
LoopCondInclusive(i, mediaCount) == ~mediaCount.nan /\ i <= mediaCount.val
\* i < mediaCount, false whenever mediaCount is NaN
LoopCond(i, mediaCount) == ~mediaCount.nan /\ i < mediaCount.val

\* ------------------------------------------------------------------ requests
MediaUrl(i) == "http://x/" \o ToString(i) \o ".jpg"
MediaFieldValues(i) == {Undefined, "", MediaUrl(i)}
MediaFields == {m \in [0..MaxIdx -> {Undefined, ""} \cup {MediaUrl(i) : i \in 0..MaxIdx}] :
                  \A i \in 0..MaxIdx : m[i] \in MediaFieldValues(i)}
NoMedia == [i \in 0..MaxIdx |-> Undefined]

\* req.body[`MediaUrl${i}`]
Field(b, i) == IF i \in DOMAIN b.Media THEN b.Media[i] ELSE Undefined

\* bodyKind: "fields" (req.body is an object of fields), "undefined" (no parser
\* produced a body: req.body is undefined), "malformed" (the body parser failed
\* and passed its error on).
EmptyBody == [bodyKind |-> "fields", From |-> Undefined, To |-> Undefined, Body |-> Undefined,
              MessageSid |-> Undefined, NumMedia |-> UndefinedValue, Media |-> NoMedia]

ExampleBody == [bodyKind |-> "fields", From |-> "+1A", To |-> "+1B", Body |-> "hi",
                MessageSid |-> "SM1", NumMedia |-> Str(<<"2">>),
                Media |-> [i \in 0..MaxIdx |-> IF i = 0 THEN MediaUrl(0) ELSE Undefined]]

OtherBody == [bodyKind |-> "fields", From |-> "+1C", To |-> "+1B", Body |-> Undefined,
              MessageSid |-> "SM2", NumMedia |-> Str(<<"1">>),
              Media |-> [i \in 0..MaxIdx |-> IF i = 0 THEN "" ELSE MediaUrl(i)]]

NumMediaValues == {UndefinedValue, NullValue} \cup {Str(s) : s \in StringsUpTo(MaxLen)}

\* every body the handler is tried on in isolation
AllBodies == {[EmptyBody EXCEPT !.bodyKind = "undefined"]}
             \cup {[ExampleBody EXCEPT !.NumMedia = n, !.Media = m] :
                     n \in NumMediaValues, m \in MediaFields}

\* the requests concurrent runs are made of
Requests == {[route |-> "webhook", body |-> b] :
               b \in {ExampleBody, OtherBody,
                      [EmptyBody EXCEPT !.bodyKind = "undefined"],
                      [EmptyBody EXCEPT !.bodyKind = "malformed"]}}
            \cup {[route |-> "health", body |-> EmptyBody],
                  [route |-> "other", body |-> EmptyBody]}
NoRequest == [route |-> "none", body |-> EmptyBody]

NoLocals == [from |-> Undefined, to |-> Undefined, body |-> Undefined,
             messageId |-> Undefined, mediaCount |-> NaN, i |-> 0, mediaUrls |-> <<>>]

Outcomes == {"ok", "non2xx", "network", "timeout"}
Failures == Outcomes \ {"ok"}

VARIABLES proc, exitCode, env, config, running, pc, req, locals, res, fwd, outcome, log

vars == <<proc, exitCode, env, config, running, pc, req, locals, res, fwd, outcome, log>>

\* --------------------------------------------------------------- the handler
\* a destructuring default: used for an undefined field only
Default(v, d) == IF v = Undefined THEN d ELSE v

\* the payload object and the axios.post arguments
Payload(l) == [from |-> l.from, to |-> l.to, body |-> l.body,
               mediaUrls |-> l.mediaUrls, messageId |-> l.messageId]
ForwardCall(l) == [url |-> config.MAIN_APP_URL \o "/api/twilio/webhook",
                   payload |-> Payload(l),
                   authorization |-> "Bearer " \o config.SUPABASE_ANON_KEY]

\* faulty variant: a blocking call, the handler keeps the event loop
ReleaseNever(r) == r
\* what the event loop holds once a handler reaches its await
ReleaseAtAwait(r) == NoHandler

Listening == proc = "listening"
headersSent(r) == res[r] # <<>>

Init ==
  /\ proc = "init"
  /\ exitCode = -1
  /\ env \in Environments
  /\ config = NoConfig
  /\ running = NoHandler
  /\ pc = [r \in Req |-> "idle"]
  /\ req = [r \in Req |-> NoRequest]
  /\ locals = [r \in Req |-> NoLocals]
  /\ res = [r \in Req |-> <<>>]
  /\ fwd = [r \in Req |-> <<>>]
  /\ outcome = [r \in Req |-> "none"]
  /\ log = [r \in Req |-> "none"]

\* the handler on one request in isolation, over every body of AllBodies
InitMedia ==
  /\ proc = "listening"
  /\ exitCode = -1
  /\ env = [n \in EnvNames |-> IF n = "MAIN_APP_URL" THEN "https://main.app"
                               ELSE IF n = "SUPABASE_ANON_KEY" THEN "anon-key" ELSE Undefined]
  /\ config = LoadConfig(env)
  /\ running = 1
  /\ pc = [r \in Req |-> IF r = 1 THEN "extract" ELSE "idle"]
  /\ \E b \in AllBodies :
       req = [r \in Req |-> IF r = 1 THEN [route |-> "webhook", body |-> b] ELSE NoRequest]
  /\ locals = [r \in Req |-> NoLocals]
  /\ res = [r \in Req |-> <<>>]
  /\ fwd = [r \in Req |-> <<>>]
  /\ outcome = [r \in Req |-> "none"]
  /\ log = [r \in Req |-> "none"]

\* module start: validate the environment, load the configuration, listen
Startup ==
  /\ proc = "init"
  /\ IF missingEnvVars(env) # {}
     THEN /\ proc' = "exited"
          /\ exitCode' = ExitFailure
          /\ UNCHANGED config
     ELSE /\ proc' = "listening"
          /\ config' = LoadConfig(env)
          /\ UNCHANGED exitCode
  /\ UNCHANGED <<env, running, pc, req, locals, res, fwd, outcome, log>>

\* SIGTERM / SIGINT: the signal callback runs when the event loop is free
Signal ==
  /\ Listening
  /\ running = NoHandler
  /\ proc' = "exited"
  /\ exitCode' = ExitSuccess
  /\ UNCHANGED <<env, config, running, pc, req, locals, res, fwd, outcome, log>>

\* the provider (or anyone) sends a request; it waits for the event loop
Arrive(r) ==
  /\ Listening
  /\ pc[r] = "idle"
  /\ \E q \in Requests : req' = [req EXCEPT ![r] = q]
  /\ pc' = [pc EXCEPT ![r] = "queued"]
  /\ UNCHANGED <<proc, exitCode, env, config, running, locals, res, fwd, outcome, log>>

\* the middleware chain and routing
Dispatch(r) ==
  /\ Listening
  /\ pc[r] = "queued"
  /\ running = NoHandler
  /\ running' = r
  /\ pc' = [pc EXCEPT ![r] =
              IF req[r].body.bodyKind = "malformed" THEN "globalError"
              ELSE IF req[r].route = "webhook" THEN "extract"
              ELSE IF req[r].route = "health" THEN "health"
              ELSE "notFound"]
  /\ UNCHANGED <<proc, exitCode, env, config, req, locals, res, fwd, outcome, log>>

Health(r) ==
  /\ Listening
  /\ pc[r] = "health" /\ running = r
  /\ res' = [res EXCEPT ![r] = Append(@, [status |-> OkStatus, body |-> HealthDoc])]
  /\ pc' = [pc EXCEPT ![r] = "done"]
  /\ running' = NoHandler
  /\ UNCHANGED <<proc, exitCode, env, config, req, locals, fwd, outcome, log>>

NotFound(r) ==
  /\ Listening
  /\ pc[r] = "notFound" /\ running = r
  /\ res' = [res EXCEPT ![r] = Append(@, [status |-> NotFoundStatus, body |-> NotFoundDoc])]
  /\ pc' = [pc EXCEPT ![r] = "done"]
  /\ running' = NoHandler
  /\ UNCHANGED <<proc, exitCode, env, config, req, locals, fwd, outcome, log>>

GlobalErrorHandler(r) ==
  /\ Listening
  /\ pc[r] = "globalError" /\ running = r
  /\ res' = [res EXCEPT ![r] = Append(@, [status |-> ErrorStatus, body |-> GlobalErrorDoc])]
  /\ pc' = [pc EXCEPT ![r] = "done"]
  /\ running' = NoHandler
  /\ UNCHANGED <<proc, exitCode, env, config, req, locals, fwd, outcome, log>>

\* lines 49-66: destructure req.body (a TypeError when it is undefined), parse
\* the count, start the loop
Extract(r) ==
  /\ Listening
  /\ pc[r] = "extract" /\ running = r
  /\ LET b == req[r].body IN
       IF b.bodyKind = "undefined"
       THEN /\ pc' = [pc EXCEPT ![r] = "catch"]
            /\ UNCHANGED locals
       ELSE LET numMedia == IF b.NumMedia.kind = "undefined" THEN Str(<<"0">>) ELSE b.NumMedia
            IN /\ locals' = [locals EXCEPT ![r] =
                               [from |-> b.From, to |-> b.To, body |-> Default(b.Body, ""),
                                messageId |-> b.MessageSid,
                                mediaCount |-> parseInt(numMedia), i |-> 0,
                                mediaUrls |-> <<>>]]
               /\ pc' = [pc EXCEPT ![r] = "loop"]
  /\ UNCHANGED <<proc, exitCode, env, config, running, req, res, fwd, outcome, log>>

\* lines 67-72: one test of the for loop, and one pass of its body
Loop(r) ==
  /\ Listening
  /\ pc[r] = "loop" /\ running = r
  /\ IF LoopCond(locals[r].i, locals[r].mediaCount)
     THEN LET mediaUrl == Field(req[r].body, locals[r].i)
          IN /\ locals' = [locals EXCEPT
                             ![r].mediaUrls = IF Truthy(mediaUrl) THEN Append(@, mediaUrl) ELSE @,
                             ![r].i = @ + 1]
             /\ UNCHANGED pc
     ELSE /\ pc' = [pc EXCEPT ![r] = "respond"]
          /\ UNCHANGED locals
  /\ UNCHANGED <<proc, exitCode, env, config, running, req, res, fwd, outcome, log>>

\* line 75: res.status(200).send(...)
Respond(r) ==
  /\ Listening
  /\ pc[r] = "respond" /\ running = r
  /\ res' = [res EXCEPT ![r] = Append(@, AckResponse)]
  /\ pc' = [pc EXCEPT ![r] = "forward"]
  /\ UNCHANGED <<proc, exitCode, env, config, running, req, locals, fwd, outcome, log>>

\* faulty variant: the forward awaited before the response is written
ForwardBeforeRespond(r) ==
  /\ Listening
  /\ pc[r] = "respond" /\ running = r
  /\ fwd' = [fwd EXCEPT ![r] = Append(@, ForwardCall(locals[r]))]
  /\ outcome' = [outcome EXCEPT ![r] = "pending"]
  /\ pc' = [pc EXCEPT ![r] = "awaiting"]
  /\ running' = ReleaseAtAwait(r)
  /\ UNCHANGED <<proc, exitCode, env, config, req, locals, res, log>>

\* lines 77-101: build the payload, start axios.post, await it
Forward(r) ==
  /\ Listening
  /\ pc[r] = "forward" /\ running = r
  /\ fwd' = [fwd EXCEPT ![r] = Append(@, ForwardCall(locals[r]))]
  /\ outcome' = [outcome EXCEPT ![r] = "pending"]
  /\ pc' = [pc EXCEPT ![r] = "awaiting"]
  /\ running' = ReleaseAtAwait(r)
  /\ UNCHANGED <<proc, exitCode, env, config, req, locals, res, log>>

\* the downstream answers, the connection fails, or the 30 s timeout fires
Settle(r) ==
  /\ Listening
  /\ pc[r] = "awaiting" /\ outcome[r] = "pending"
  /\ \E o \in Outcomes : outcome' = [outcome EXCEPT ![r] = o]
  /\ UNCHANGED <<proc, exitCode, env, config, running, pc, req, locals, res, fwd, log>>

\* lines 103-108: the await resolved
ForwardOk(r) ==
  /\ Listening
  /\ pc[r] = "awaiting" /\ outcome[r] = "ok"
  /\ running = NoHandler
  /\ log' = [log EXCEPT ![r] = "forwarded"]
  /\ pc' = [pc EXCEPT ![r] = "done"]
  /\ UNCHANGED <<proc, exitCode, env, config, running, req, locals, res, fwd, outcome>>

\* faulty variant: a catch that throws the forward error on to the outer catch
ForwardErrRethrow(r) ==
  /\ Listening
  /\ pc[r] = "awaiting" /\ outcome[r] \in Failures
  /\ running = NoHandler
  /\ running' = r
  /\ log' = [log EXCEPT ![r] = "forward-failed"]
  /\ pc' = [pc EXCEPT ![r] = "catch"]
  /\ UNCHANGED <<proc, exitCode, env, config, req, locals, res, fwd, outcome>>

\* faulty variant: a catch that tells the provider about the failure
ForwardErrRespond(r) ==
  /\ Listening
  /\ pc[r] = "awaiting" /\ outcome[r] \in Failures
  /\ running = NoHandler
  /\ log' = [log EXCEPT ![r] = "forward-failed"]
  /\ res' = [res EXCEPT ![r] = Append(@, ErrorResponse)]
  /\ pc' = [pc EXCEPT ![r] = "done"]
  /\ UNCHANGED <<proc, exitCode, env, config, running, req, locals, fwd, outcome>>

\* faulty variant: a catch that issues the call again
ForwardErrRetry(r) ==
  /\ Listening
  /\ pc[r] = "awaiting" /\ outcome[r] \in Failures
  /\ running = NoHandler
  /\ log' = [log EXCEPT ![r] = "forward-failed"]
  /\ fwd' = [fwd EXCEPT ![r] = IF Len(@) < 2 THEN Append(@, ForwardCall(locals[r])) ELSE @]
  /\ outcome' = [outcome EXCEPT ![r] = "pending"]
  /\ UNCHANGED <<proc, exitCode, env, config, running, pc, req, locals, res>>

\* lines 109-117: the await rejected; the error is logged and dropped
ForwardErr(r) ==
  /\ Listening
  /\ pc[r] = "awaiting" /\ outcome[r] \in Failures
  /\ running = NoHandler
  /\ log' = [log EXCEPT ![r] = "forward-failed"]
  /\ pc' = [pc EXCEPT ![r] = "done"]
  /\ UNCHANGED <<proc, exitCode, env, config, running, req, locals, res, fwd, outcome>>

\* faulty variant: a catch that passes the error on instead of answering
OuterCatchPropagate(r) ==
  /\ Listening
  /\ pc[r] = "catch" /\ running = r
  /\ log' = [log EXCEPT ![r] = "error"]
  /\ pc' = [pc EXCEPT ![r] = "globalError"]
  /\ UNCHANGED <<proc, exitCode, env, config, running, req, locals, res, fwd, outcome>>

\* lines 119-126: log; answer 500 unless a response was already sent
OuterCatch(r) ==
  /\ Listening
  /\ pc[r] = "catch" /\ running = r
  /\ log' = [log EXCEPT ![r] = "error"]
  /\ res' = [res EXCEPT ![r] = IF ~headersSent(r) THEN Append(@, ErrorResponse) ELSE @]
  /\ pc' = [pc EXCEPT ![r] = "done"]
  /\ running' = NoHandler
  /\ UNCHANGED <<proc, exitCode, env, config, req, locals, fwd, outcome>>

\* the webhook handler of one request
Handler(r) ==
  \/ Extract(r)
  \/ Loop(r)
  \/ Respond(r)
  \/ Forward(r)
  \/ Settle(r)
  \/ ForwardOk(r)
  \/ ForwardErr(r)
  \/ OuterCatch(r)

Next ==
  \/ Startup
  \/ Signal
  \/ \E r \in Req : Arrive(r)
  \/ \E r \in Req : Dispatch(r)
  \/ \E r \in Req : Health(r)
  \/ \E r \in Req : NotFound(r)
  \/ \E r \in Req : GlobalErrorHandler(r)
  \/ \E r \in Req : Handler(r)

NextMedia == \E r \in Req : Handler(r)

Spec == Init /\ [][Next]_vars

SpecMedia == InitMedia /\ [][NextMedia]_vars

\* every step the process takes on its own: start-up and the callbacks of requests
\* already received
Progress ==
  \/ Startup
  \/ \E r \in Req : Dispatch(r)
  \/ \E r \in Req : Health(r)
  \/ \E r \in Req : NotFound(r)
  \/ \E r \in Req : GlobalErrorHandler(r)
  \/ \E r \in Req : Handler(r)

\* The event loop keeps running ready callbacks, and every forward call settles
\* (axios rejects it after the 30 s timeout at the latest).  Nothing obliges
\* the provider to send a request or anyone to send a signal.
Fairness == WF_vars(Progress)

LiveSpec == Spec /\ Fairness

\* ===================================================================== claims
\* What the provider must see, written out from the contract.
ProviderAck == [status |-> 200,
                body |-> "<?xml version=\"1.0\" encoding=\"UTF-8\"?><Response></Response>"]
ProviderError == [status |-> 500,
                  body |-> "<?xml version=\"1.0\" encoding=\"UTF-8\"?><Response></Response>"]

IsWebhook(r) == req[r].route = "webhook"
\* the request reached the handler with a parsed body
WellFormed(r) == IsWebhook(r) /\ req[r].body.bodyKind = "fields"
\* the handler threw before it had responded
PreResponseError(r) == IsWebhook(r) /\ req[r].body.bodyKind = "undefined"
Acked(r) == IsWebhook(r) /\ res[r] # <<>> /\ res[r][1] = ProviderAck
Forwarded(r) == fwd[r] # <<>>

IsDigits(s) == s # <<>> /\ \A k \in 1..Len(s) : s[k] \in Digits

RECURSIVE TrimEnd(_)
TrimEnd(s) == IF s # <<>> /\ s[Len(s)] \in WhiteSpace THEN TrimEnd(SubSeq(s, 1, Len(s) - 1)) ELSE s

\* a numeric string: white space, an optional sign, decimal digits, white space
NumericString(s) ==
  LET t == TrimEnd(TrimStart(s))
      u == IF t # <<>> /\ t[1] \in {"-", "+"} THEN Tail(t) ELSE t
  IN IsDigits(u)

ValidCount(v) == v.kind = "string" /\ IsDigits(v.chars)
NonNumeric(v) == v.kind # "string" \/ ~NumericString(v.chars)

UrlIndex(u) == CHOOSE i \in 0..MaxIdx : MediaUrl(i) = u

\* L holds exactly the present URLs of MediaUrl0..MediaUrl(N-1), in index order
AttachmentListOk(b, N, L) ==
  /\ Len(L) <= N
  /\ {L[k] : k \in 1..Len(L)} = {b.Media[i] : i \in {j \in 0..MaxIdx : j < N /\ Truthy(b.Media[j])}}
  /\ \A j, k \in 1..Len(L) : j < k => UrlIndex(L[j]) < UrlIndex(L[k])

\* C1: whenever a request's forward call has been started, the provider has
\* already been sent the 200 acknowledgment document for that request.
C1_AckBeforeForward ==
  \A r \in Req : Forwarded(r) => res[r] # <<>> /\ res[r][1] = ProviderAck

C1_Witness ==
  \E r \in Req : pc[r] = "awaiting" /\ outcome[r] = "pending" /\ res[r] = <<ProviderAck>>

\* C2: a well-formed webhook request never takes the error path, and from the
\* moment it has responded its one response is the 200 acknowledgment, whatever
\* the downstream call does (pending, success, non-2xx, network error, timeout).
C2_Always200 ==
  \A r \in Req : WellFormed(r) =>
     /\ pc[r] # "catch"
     /\ pc[r] \in {"forward", "awaiting", "done"} => res[r] = <<ProviderAck>>
     /\ outcome[r] # "none" => res[r] = <<ProviderAck>>

C2_Witness ==
  \E r, s \in Req :
     /\ r # s /\ WellFormed(r) /\ WellFormed(s)
     /\ pc[r] = "done" /\ outcome[r] = "timeout" /\ res[r] = <<ProviderAck>>
     /\ pc[s] = "awaiting" /\ outcome[s] = "pending" /\ res[s] = <<ProviderAck>>

\* C3: a failed forward call is only logged: the handler never enters its outer
\* catch or the global error handler because of it, the response stays the one
\* 200 acknowledgment, and the handler finishes normally.
C3_ForwardFailureContained ==
  \A r \in Req : outcome[r] \in Failures =>
     /\ pc[r] \in {"awaiting", "done"}
     /\ running # r
     /\ res[r] = <<ProviderAck>>
     /\ log[r] \in {"none", "forward-failed"}
     /\ pc[r] = "done" => log[r] = "forward-failed"

C3_Witness ==
  \E r \in Req : outcome[r] = "non2xx" /\ pc[r] = "done" /\ log[r] = "forward-failed"
                 /\ res[r] = <<ProviderAck>>

\* C4: for a valid count N (a string of decimal digits) the media list the
\* handler built, and the one in the forwarded payload, hold exactly the truthy
\* MediaUrl0..MediaUrl(N-1) values in ascending index order, at most N of them.
C4_AttachmentList ==
  \A r \in Req : WellFormed(r) /\ ValidCount(req[r].body.NumMedia) =>
     LET b == req[r].body
         N == DigitsValue(b.NumMedia.chars)
     IN /\ pc[r] \in {"respond", "forward"} => AttachmentListOk(b, N, locals[r].mediaUrls)
        /\ Forwarded(r) => AttachmentListOk(b, N, fwd[r][1].payload.mediaUrls)

C4_Witness ==
  \E r \in Req :
     /\ Forwarded(r)
     /\ req[r].body.NumMedia = Str(<<"2">>)
     /\ req[r].body.Media[0] = MediaUrl(0)
     /\ req[r].body.Media[1] = ""
     /\ req[r].body.Media[2] = MediaUrl(2)
     /\ fwd[r][1].payload.mediaUrls = <<MediaUrl(0)>>

\* C5: a NumMedia that is absent, null, or not a numeric string (a numeric
\* prefix followed by other characters included) forwards an empty media list.
C5_NonNumericCountIsZero ==
  \A r \in Req : WellFormed(r) /\ NonNumeric(req[r].body.NumMedia) /\ Forwarded(r) =>
     fwd[r][1].payload.mediaUrls = <<>>

\* C6: when MAIN_APP_URL or SUPABASE_ANON_KEY is absent or empty at startup, the
\* process is either not yet started or has exited with code 1; it never
\* listens, no request is received or answered and no forward call is issued.
C6_MissingEnvNeverServes ==
  (\E n \in {"MAIN_APP_URL", "SUPABASE_ANON_KEY"} : env[n] \in {Undefined, ""}) =>
     /\ proc # "listening"
     /\ proc = "exited" => exitCode = 1
     /\ \A r \in Req : pc[r] = "idle" /\ res[r] = <<>> /\ fwd[r] = <<>>

C6_Witness ==
  /\ proc = "exited" /\ exitCode = 1
  /\ env["MAIN_APP_URL"] = "https://main.app" /\ env["SUPABASE_ANON_KEY"] = ""

\* C7: a webhook request whose handler throws before responding ends with
\* exactly one response, the 500 acknowledgment document, written by the
\* handler's own catch (never by the global error handler), with no forward
\* call; and no request that reaches the handler is ever answered twice.
C7_PreResponseError ==
  \A r \in Req :
     /\ PreResponseError(r) =>
          /\ pc[r] # "globalError"
          /\ fwd[r] = <<>>
          /\ res[r] \in {<<>>, <<ProviderError>>}
          /\ pc[r] = "done" => res[r] = <<ProviderError>> /\ log[r] = "error"
     /\ IsWebhook(r) => Len(res[r]) <= 1

C7_Witness ==
  \E r \in Req : PreResponseError(r) /\ pc[r] = "done" /\ res[r] = <<ProviderError>>
                 /\ fwd[r] = <<>>

\* C8: a request issues at most one forward call, to {MAIN_APP_URL}/api/twilio/webhook;
\* once an acknowledged request has left its synchronous part it has issued exactly
\* one, whatever the outcome; a request without a 200 acknowledgment has issued none;
\* so the forward calls never outnumber the 200 acknowledgments.
C8_OneForwardPerAck ==
  /\ \A r \in Req :
        /\ Len(fwd[r]) <= 1
        /\ Acked(r) /\ pc[r] \in {"awaiting", "done"} => Len(fwd[r]) = 1
        /\ ~Acked(r) => fwd[r] = <<>>
        /\ Forwarded(r) => fwd[r][1].url = env["MAIN_APP_URL"] \o "/api/twilio/webhook"
  /\ Cardinality({r \in Req : Forwarded(r)}) <= Cardinality({r \in Req : Acked(r)})

C8_Witness ==
  \E r, s \in Req :
     /\ pc[r] = "done" /\ outcome[r] = "network" /\ Acked(r) /\ Len(fwd[r]) = 1
     /\ pc[s] = "done" /\ PreResponseError(s) /\ fwd[s] = <<>>

Terminal(r) == pc[r] = "done" /\ log[r] \in {"forwarded", "forward-failed"}

RECURSIVE ExpectedMedia(_, _)
ExpectedMedia(b, n) ==
  IF n <= 0 THEN <<>>
  ELSE ExpectedMedia(b, n - 1)
       \o (IF n - 1 \in 0..MaxIdx /\ b.Media[n - 1] \notin {Undefined, ""}
           THEN <<b.Media[n - 1]>> ELSE <<>>)

ExpectedCount(b) == IF ValidCount(b.NumMedia) THEN DigitsValue(b.NumMedia.chars) ELSE 0

\* the outbound call as a function of one request body and the environment
ExpectedCall(b) ==
  [url |-> env["MAIN_APP_URL"] \o "/api/twilio/webhook",
   payload |-> [from |-> b.From, to |-> b.To,
                body |-> IF b.Body = Undefined THEN "" ELSE b.Body,
                mediaUrls |-> ExpectedMedia(b, ExpectedCount(b)),
                messageId |-> b.MessageSid],
   authorization |-> "Bearer " \o env["SUPABASE_ANON_KEY"]]

SyncStates == {"extract", "loop", "respond", "forward", "catch", "health", "notFound", "globalError"}

\* C10: the configuration stays what the environment gave at startup; a handler
\* waiting for its forward call does not hold the event loop, so a queued request
\* can be dispatched while other requests' forwards are pending; and each webhook
\* request's response and forward call are functions of its own body and the
\* configuration alone.
C10_Independence ==
  /\ proc = "listening" =>
        config = [MAIN_APP_URL |-> env["MAIN_APP_URL"],
                  SUPABASE_ANON_KEY |-> env["SUPABASE_ANON_KEY"],
                  DEBUG_MODE |-> (env["DEBUG_MODE"] = "true")]
  /\ \A r \in Req : pc[r] = "awaiting" => running # r
  /\ \A s \in Req :
        (proc = "listening" /\ pc[s] = "queued" /\ \A q \in Req : pc[q] \notin SyncStates)
           => ENABLED Dispatch(s)
  /\ \A r \in Req : WellFormed(r) =>
        /\ Forwarded(r) => fwd[r] = <<ExpectedCall(req[r].body)>>
        /\ res[r] \in {<<>>, <<ProviderAck>>}

C10_Witness ==
  \E r, s \in Req :
     /\ r # s /\ req[r] # req[s]
     /\ pc[r] = "awaiting" /\ outcome[r] = "pending" /\ fwd[r] = <<ExpectedCall(req[r].body)>>
     /\ pc[s] = "forward" /\ Acked(s) /\ fwd[s] = <<>>
====
